---- MODULE Spec2Model ----
(***************************************************************************)
(* Model of yaml_to_json.ts: the roadmap-payload extraction heuristic      *)
(* (isRoadmapData, extractRoadmapData), the per-file conversion            *)
(* (convertYamlToJson), the batch driver (convertAllYamlFiles) and the     *)
(* command-line entry point.                                               *)
(***************************************************************************)
EXTENDS Integers, Sequences, FiniteSets, TLC

(***************************************************************************)
(* Bounds                                                                  *)
(***************************************************************************)
\* largest number of keys of a generated mapping / elements of a sequence
MaxKeys == 2

(***************************************************************************)
(* JavaScript values as produced by yaml.load: null, string, number,       *)
(* boolean, mapping (entries kept in insertion order) and sequence.        *)
(***************************************************************************)
Null == [kind |-> "null", v |-> "null"]

Undefined == [kind |-> "undefined", v |-> "undefined"]

Str(s) == [kind |-> "str", v |-> s]

Num(s) == [kind |-> "num", v |-> s]

Bool(s) == [kind |-> "bool", v |-> s]

MapOf(entries) == [kind |-> "map", v |-> entries]

SeqOf(elems) == [kind |-> "seq", v |-> elems]

\* the value a throwing call leaves the caller with
Thrown == [kind |-> "throw", v |-> "TypeError"]

\* typeof x
TypeOf(x) ==
  CASE x.kind \in {"null", "map", "seq"} -> "object"
    [] x.kind = "str" -> "string"
    [] x.kind = "num" -> "number"
    [] x.kind = "bool" -> "boolean"
    [] OTHER -> "undefined"

\* the truthiness of x, as tested by !x and by &&
Truthy(x) ==
  CASE x.kind \in {"null", "undefined"} -> FALSE
    [] x.kind = "str" -> x.v # ""
    [] x.kind = "num" -> x.v # "0"
    [] x.kind = "bool" -> x.v = "true"
    [] OTHER -> TRUE

\* the canonical array-index property names
IndexName(i) ==
  CASE i = 0 -> "0" [] i = 1 -> "1" [] i = 2 -> "2" [] i = 3 -> "3"
    [] i = 4 -> "4" [] OTHER -> "5"

\* largest array index the model names
MaxIndex == 4

IsIndexKey(k) == \E i \in 0..MaxIndex : k = IndexName(i)

IndexOf(k) == CHOOSE i \in 0..MaxIndex : k = IndexName(i)

\* the keys of a mapping in the order they were inserted
InsertionKeys(obj) == [i \in 1..Len(obj.v) |-> obj.v[i].key]

\* Object.keys(null) and Object.keys(undefined) throw a TypeError
KeysThrows(obj) == obj.kind \in {"null", "undefined"}

\* a variant that enumerates every key in insertion order
ObjectKeysInsertionOrder(obj) ==
  IF obj.kind = "map" THEN InsertionKeys(obj)
  ELSE IF obj.kind = "seq" THEN [i \in 1..Len(obj.v) |-> IndexName(i - 1)]
  ELSE << >>

\* Object.keys(obj): integer-like keys in ascending numeric order first, then
\* the string keys in insertion order; the indices of a sequence; nothing for
\* a number or a boolean
ObjectKeys(obj) ==
  IF obj.kind = "map" THEN
    LET ins == InsertionKeys(obj)
        present(i) == \E j \in 1..Len(ins) : ins[j] = IndexName(i)
        idx == SelectSeq([i \in 1..(MaxIndex + 1) |-> IndexName(i - 1)],
                         LAMBDA k : present(IndexOf(k)))
    IN idx \o SelectSeq(ins, LAMBDA k : ~IsIndexKey(k))
  ELSE IF obj.kind = "seq" THEN [i \in 1..Len(obj.v) |-> IndexName(i - 1)]
  ELSE << >>

\* obj[k]
Get(obj, k) ==
  IF obj.kind = "map" THEN
    IF \E j \in 1..Len(obj.v) : obj.v[j].key = k
    THEN obj.v[CHOOSE j \in 1..Len(obj.v) : obj.v[j].key = k].val
    ELSE Undefined
  ELSE IF obj.kind = "seq" THEN
    IF IsIndexKey(k) /\ IndexOf(k) < Len(obj.v) THEN obj.v[IndexOf(k) + 1]
    ELSE Undefined
  ELSE Undefined

\* k in obj, for obj an object
HasProp(k, obj) ==
  IF obj.kind = "map" THEN \E j \in 1..Len(obj.v) : obj.v[j].key = k
  ELSE IF obj.kind = "seq" THEN
    (IsIndexKey(k) /\ IndexOf(k) < Len(obj.v)) \/ k = "length"
  ELSE FALSE

(***************************************************************************)
(* The validity test and the extractor                                     *)
(***************************************************************************)
\* a variant satisfied with one of title and description
isRoadmapDataEither(obj) ==
  IF ~Truthy(obj) \/ TypeOf(obj) # "object" THEN FALSE
  ELSE
    LET keys == ObjectKeys(obj) IN
    IF Len(keys) = 0 THEN FALSE
    ELSE
      LET firstValue == Get(obj, keys[1])
      IN /\ Truthy(firstValue)
         /\ TypeOf(firstValue) = "object"
         /\ (HasProp("title", firstValue) \/ HasProp("description", firstValue))

\* a variant that examines the last key instead of the first
isRoadmapDataLastKey(obj) ==
  IF ~Truthy(obj) \/ TypeOf(obj) # "object" THEN FALSE
  ELSE
    LET keys == ObjectKeys(obj) IN
    IF Len(keys) = 0 THEN FALSE
    ELSE
      LET lastValue == Get(obj, keys[Len(keys)])
      IN /\ Truthy(lastValue)
         /\ TypeOf(lastValue) = "object"
         /\ HasProp("title", lastValue)
         /\ HasProp("description", lastValue)

\* the truthiness of isRoadmapData(obj)
isRoadmapData(obj) ==
  IF ~Truthy(obj) \/ TypeOf(obj) # "object" THEN FALSE
  ELSE
    LET keys == ObjectKeys(obj) IN
    IF Len(keys) = 0 THEN FALSE
    ELSE
      LET firstKey == keys[1]
          firstValue == Get(obj, firstKey)
      IN /\ Truthy(firstValue)
         /\ TypeOf(firstValue) = "object"
         /\ HasProp("title", firstValue)
         /\ HasProp("description", firstValue)

\* a variant without the direct match
ExtractObjectScanOnly(yamlData) ==
  IF KeysThrows(yamlData) THEN Thrown
  ELSE
    LET keys == ObjectKeys(yamlData)
        hits == SelectSeq(keys, LAMBDA k : isRoadmapData(Get(yamlData, k)))
    IN IF Len(hits) > 0 THEN Get(yamlData, hits[1]) ELSE Null

\* what extractRoadmapData does after its first guard
ExtractObject(yamlData) ==
  IF isRoadmapData(yamlData) THEN yamlData
  ELSE IF KeysThrows(yamlData) THEN Thrown
  ELSE
    LET keys == ObjectKeys(yamlData) IN
    IF Len(keys) = 0 THEN Null
    ELSE IF Len(keys) = 1 /\ isRoadmapData(Get(yamlData, keys[1]))
      THEN Get(yamlData, keys[1])
    ELSE
      LET hits == SelectSeq(keys, LAMBDA k : isRoadmapData(Get(yamlData, k)))
      IN IF Len(hits) > 0 THEN Get(yamlData, hits[1]) ELSE Null

\* a variant whose first guard lets null through
extractRoadmapDataNoNullGuard(yamlData) ==
  IF TypeOf(yamlData) # "object" THEN Null
  ELSE ExtractObject(yamlData)

\* extractRoadmapData(yamlData); null is the not-found result
extractRoadmapData(yamlData) ==
  IF ~Truthy(yamlData) \/ TypeOf(yamlData) # "object" THEN Null
  ELSE ExtractObject(yamlData)

(***************************************************************************)
(* The parsed trees the extractor is applied to                            *)
(***************************************************************************)
\* mappings of at most n entries with distinct keys, in every insertion order
MapsOver(Keys, Vals, n) ==
  LET Pairs == [key : Keys, val : Vals]
      distinct(s) == \A i, j \in DOMAIN s : i # j => s[i].key # s[j].key
  IN { MapOf(s) : s \in { t \in UNION { [1..m -> Pairs] : m \in 0..n } :
                            distinct(t) } }

SeqsOver(Vals, n) == { SeqOf(s) : s \in UNION { [1..m -> Vals] : m \in 0..n } }

Scalars == { Null, Str("A"), Str(""), Num("0"), Num("5"), Bool("false") }

\* entry-shaped mappings: some of title and description, in either order
EntryLike == MapsOver({"title", "description"}, {Str("A")}, MaxKeys)

Entry == MapOf(<< [key |-> "title", val |-> Str("A")],
                  [key |-> "description", val |-> Str("A")] >>)

TopicValues == { Null, Str("A") } \cup EntryLike

TopicKeys == { "t1", "title", "description", "1" }

\* payload-shaped mappings and sequences, well-formed or not
PayloadLike == MapsOver(TopicKeys, TopicValues, MaxKeys)

SeqLike == SeqsOver(TopicValues, MaxKeys)

WrapperKeys == { "w", "b", "1" }

\* a wrapper around one value
Wrapped == MapsOver(WrapperKeys,
                    Scalars \cup EntryLike \cup PayloadLike \cup SeqLike, 1)

SiblingValues ==
  { Str("A"), Entry, SeqOf(<< Entry >>),
    MapOf(<< [key |-> "t1", val |-> Entry] >>),
    MapOf(<< [key |-> "t1", val |-> Str("A")] >>),
    MapOf(<< [key |-> "title", val |-> Entry] >>) }

\* top-level mappings with several keys
Siblings == MapsOver(WrapperKeys, SiblingValues, MaxKeys)

Trees == Scalars \cup EntryLike \cup PayloadLike \cup SeqLike
           \cup Wrapped \cup Siblings

(***************************************************************************)
(* File names and paths: strings as sequences of characters                *)
(***************************************************************************)
ExtYaml == << ".", "y", "a", "m", "l" >>

ExtYml == << ".", "y", "m", "l" >>

ExtJson == << ".", "j", "s", "o", "n" >>

\* String.prototype.endsWith
EndsWith(s, suffix) ==
  /\ Len(s) >= Len(suffix)
  /\ SubSeq(s, Len(s) - Len(suffix) + 1, Len(s)) = suffix

\* case folding of one character, as the i flag of a regular expression does
Lower(c) ==
  CASE c = "A" -> "a" [] c = "C" -> "c" [] c = "L" -> "l"
    [] c = "M" -> "m" [] c = "Y" -> "y" [] OTHER -> c

LowerStr(s) == [i \in 1..Len(s) |-> Lower(s[i])]

\* name.replace(/\.ya?ml$/i, '.json')
ReplaceYamlExt(name) ==
  IF EndsWith(LowerStr(name), ExtYaml)
    THEN SubSeq(name, 1, Len(name) - Len(ExtYaml)) \o ExtJson
  ELSE IF EndsWith(LowerStr(name), ExtYml)
    THEN SubSeq(name, 1, Len(name) - Len(ExtYml)) \o ExtJson
  ELSE name

\* the filter of the batch driver
IsYamlName(file) == EndsWith(file, ExtYaml) \/ EndsWith(file, ExtYml)

\* path.join(dir, file), for a plain file name
Join(dir, file) == dir \o << "/" >> \o file

\* path.join(process.cwd(), 'roadmaps')
RoadmapsDir == << "r", "o", "a", "d", "m", "a", "p", "s" >>

\* the entries a roadmaps directory may hold, in the order it lists them
SourceNames ==
  << << "a" >> \o ExtYaml,
     << "b" >> \o ExtYml,
     << "C", ".", "Y", "A", "M", "L" >>,
     << "d", ".", "Y", "m", "l" >>,
     << "e", ".", "t", "x", "t" >> >>

OutputNames ==
  << << "a" >> \o ExtJson, << "b" >> \o ExtJson,
     << "C" >> \o ExtJson, << "d" >> \o ExtJson >>

EntryNames == SourceNames \o OutputNames

Range(s) == { s[i] : i \in 1..Len(s) }

Paths == { Join(RoadmapsDir, n) : n \in Range(EntryNames) }

(***************************************************************************)
(* File contents                                                           *)
(***************************************************************************)
\* no such file: fs.readFileSync throws ENOENT
Absent == [kind |-> "absent", tree |-> Null]

\* the path exists but cannot be read as a file
Unreadable == [kind |-> "unreadable", tree |-> Null]

\* zero bytes, or white space only
Blank == [kind |-> "blank", tree |-> Null]

\* text on which yaml.load throws
BadYaml == [kind |-> "badyaml", tree |-> Null]

\* YAML text that yaml.load parses to tree t
YamlDoc(t) == [kind |-> "yaml", tree |-> t]

\* JSON.stringify(t, null, 2) + '\n'
JsonText(t) == [kind |-> "json", tree |-> t]

\* what a destination holds before the run
OldJson == JsonText(Str("old"))

DocTrees ==
  { Null, MapOf(<< >>),
    MapOf(<< [key |-> "w",
              val |-> MapOf(<< [key |-> "t1", val |-> Entry] >>)] >>) }

SourceContents == { Unreadable, Blank, BadYaml } \cup { YamlDoc(t) : t \in DocTrees }

\* largest number of source entries in the directory
MaxFiles == 3

\* the outcomes of fs.writeFileSync
WriteOutcomes == { "ok", "fail_untouched", "fail_truncated" }

(***************************************************************************)
(* convertYamlToJson                                                       *)
(***************************************************************************)
Failure(fsys, errs, wrote) ==
  [ret |-> FALSE, fs |-> fsys, err |-> errs, out |-> << >>, wrote |-> wrote]

\* the write of the JSON text and what follows it
WriteJson(fsys, jsonFile, jsonData, w) ==
  IF w = "ok"
    THEN [ret |-> TRUE, fs |-> [fsys EXCEPT ![jsonFile] = JsonText(jsonData)],
          err |-> << >>, out |-> << "converted" >>, wrote |-> TRUE]
  ELSE IF w = "fail_truncated"
    THEN Failure([fsys EXCEPT ![jsonFile] = Blank],
                 << "error_converting", "stack" >>, TRUE)
  ELSE Failure(fsys, << "error_converting", "stack" >>, TRUE)

\* a variant that writes whatever the extraction returned
ExtractAndWriteUnchecked(fsys, jsonFile, yamlData, w) ==
  WriteJson(fsys, jsonFile, extractRoadmapData(yamlData), w)

\* the steps from the extraction on
ExtractAndWrite(fsys, jsonFile, yamlData, w) ==
  LET extracted == extractRoadmapData(yamlData) IN
  IF extracted = Thrown THEN Failure(fsys, << "error_converting", "stack" >>, FALSE)
  ELSE IF ~Truthy(extracted) THEN Failure(fsys, << "extract_failed" >>, FALSE)
  ELSE WriteJson(fsys, jsonFile, extracted, w)

\* convertYamlToJson(yamlFile, jsonFile) on file system fsys, the write ending
\* as w: the value returned, the file system left, the lines printed
convertYamlToJson(fsys, yamlFile, jsonFile, w) ==
  LET content == fsys[yamlFile] IN
  IF content.kind = "absent" THEN Failure(fsys, << "not_found" >>, FALSE)
  ELSE IF content.kind = "unreadable"
    THEN Failure(fsys, << "error_converting", "stack" >>, FALSE)
  ELSE IF content.kind = "blank" THEN Failure(fsys, << "empty" >>, FALSE)
  ELSE IF content.kind = "badyaml"
    THEN Failure(fsys, << "error_converting", "stack" >>, FALSE)
  ELSE IF ~Truthy(content.tree) THEN Failure(fsys, << "parse_failed" >>, FALSE)
  ELSE ExtractAndWrite(fsys, jsonFile, content.tree, w)

\* the record kept of one call
CallRecord(fsys, yamlFile, jsonFile, r) ==
  [src |-> yamlFile, dst |-> jsonFile, content |-> fsys[yamlFile],
   before |-> fsys[jsonFile], after |-> r.fs[jsonFile],
   wrote |-> r.wrote, ret |-> r.ret, err |-> r.err, out |-> r.out]

(***************************************************************************)
(* State                                                                   *)
(***************************************************************************)
VARIABLES yamlData, jsonData, phase, args, dirState, fs, pc, yamlFiles, idx, successCount, failCount, exitCode, stdout, stderr, calls

\* yamlData:  the tree handed to extractRoadmapData
\* jsonData:  what extractRoadmapData returned
\* phase:     "parsed" before that call, "extracted" after it
\* args:      process.argv.slice(2)
\* dirState:  the roadmaps directory: "missing", "ok" or "unlistable"
\* fs:        the content of every path
\* pc:        "start", "loop" (inside the batch loop) or "exited"
\* yamlFiles: the entries the batch driver selected
\* idx:       the position of the loop in yamlFiles
\* successCount, failCount: the counters of the batch driver
\* exitCode:  the code given to process.exit, -1 while running
\* stdout, stderr: the lines printed
\* calls:     one record per call of convertYamlToJson
vars == << yamlData, jsonData, phase, args, dirState, fs, pc, yamlFiles, idx, successCount, failCount, exitCode, stdout, stderr, calls >>

extractVars == << yamlData, jsonData, phase >>

cliVars == << args, dirState, fs, pc, yamlFiles, idx, successCount, failCount, exitCode, stdout, stderr, calls >>

NoFiles == [p \in Paths |-> Absent]

(***************************************************************************)
(* The extractor on its own                                                *)
(***************************************************************************)
InitExtract ==
  /\ yamlData \in Trees
  /\ jsonData = Undefined
  /\ phase = "parsed"
  /\ args = << >>
  /\ dirState = "missing"
  /\ fs = NoFiles
  /\ pc = "idle"
  /\ yamlFiles = << >>
  /\ idx = 1
  /\ successCount = 0
  /\ failCount = 0
  /\ exitCode = -1
  /\ stdout = << >>
  /\ stderr = << >>
  /\ calls = << >>

Extract ==
  /\ phase = "parsed"
  /\ jsonData' = extractRoadmapData(yamlData)
  /\ phase' = "extracted"
  /\ UNCHANGED << yamlData, cliVars >>

NextExtract == Extract

SpecExtract == InitExtract /\ [][NextExtract]_vars

(***************************************************************************)
(* The command line                                                        *)
(***************************************************************************)
\* the file systems a run may start from
FileSystems ==
  LET Placements ==
        { g \in [Range(SourceNames) -> SourceContents \cup { Absent }] :
            Cardinality({ n \in Range(SourceNames) : g[n] # Absent })
              <= MaxFiles }
  IN { [p \in Paths |->
          IF \E n \in Range(SourceNames) : p = Join(RoadmapsDir, n)
            THEN g[CHOOSE n \in Range(SourceNames) : p = Join(RoadmapsDir, n)]
          ELSE IF p = Join(RoadmapsDir, OutputNames[1]) THEN OldJson
          ELSE Absent] : g \in Placements }

\* the argument lists: none, a source, a source and a destination
ArgLists ==
  { << >> }
    \cup { << Join(RoadmapsDir, n) >> : n \in Range(SourceNames) }
    \cup { << Join(RoadmapsDir, n), Join(RoadmapsDir, OutputNames[1]) >> :
             n \in Range(SourceNames) }

Init ==
  /\ yamlData = Null
  /\ jsonData = Undefined
  /\ phase = "idle"
  /\ args \in ArgLists
  /\ dirState \in { "missing", "ok", "unlistable" }
  /\ fs \in FileSystems
  /\ dirState = "missing" => fs = NoFiles
  /\ dirState = "unlistable" => args = << >>
  /\ pc = "start"
  /\ yamlFiles = << >>
  /\ idx = 1
  /\ successCount = 0
  /\ failCount = 0
  /\ exitCode = -1
  /\ stdout = << >>
  /\ stderr = << >>
  /\ calls = << >>

\* a variant that reports success whatever happened
ExitAlwaysZero(success) == 0

\* process.exit(success ? 0 : 1)
ExitCodeFor(success) == IF success THEN 0 ELSE 1

\* args[1] || yamlFile.replace(/\.ya?ml$/i, '.json')
DestinationFor(argv) ==
  IF Len(argv) >= 2 /\ argv[2] # << >> THEN argv[2] ELSE ReplaceYamlExt(argv[1])

\* main with arguments: one conversion, then exit
MainSingle ==
  /\ pc = "start"
  /\ Len(args) > 0
  /\ \E w \in WriteOutcomes :
       LET yamlFile == args[1]
           jsonFile == DestinationFor(args)
           r == convertYamlToJson(fs, yamlFile, jsonFile, w)
       IN /\ fs' = r.fs
          /\ stdout' = stdout \o r.out
          /\ stderr' = stderr \o r.err
          /\ calls' = Append(calls, CallRecord(fs, yamlFile, jsonFile, r))
          /\ exitCode' = ExitCodeFor(r.ret)
  /\ pc' = "exited"
  /\ UNCHANGED << extractVars, args, dirState, yamlFiles, idx, successCount, failCount >>

\* fs.readdirSync(roadmapsDir)
ReadDir(fsys) ==
  SelectSeq(EntryNames, LAMBDA n : fsys[Join(RoadmapsDir, n)] # Absent)

\* main without arguments: convertAllYamlFiles up to its loop
BatchStart ==
  /\ pc = "start"
  /\ Len(args) = 0
  /\ IF dirState = "missing"
       THEN /\ stderr' = Append(stderr, "dir_not_found")
            /\ exitCode' = 1
            /\ pc' = "exited"
            /\ UNCHANGED << yamlFiles, stdout >>
     ELSE IF dirState = "unlistable"
       THEN /\ stderr' = Append(stderr, "error")
            /\ exitCode' = 1
            /\ pc' = "exited"
            /\ UNCHANGED << yamlFiles, stdout >>
     ELSE LET selected == SelectSeq(ReadDir(fs), IsYamlName) IN
          /\ yamlFiles' = selected
          /\ IF Len(selected) = 0
               THEN /\ stdout' = Append(stdout, "no_yaml_files")
                    /\ exitCode' = 0
                    /\ pc' = "exited"
               ELSE /\ stdout' = Append(stdout, "found")
                    /\ pc' = "loop"
                    /\ UNCHANGED exitCode
          /\ UNCHANGED stderr
  /\ UNCHANGED << extractVars, args, dirState, fs, idx, successCount, failCount, calls >>

\* a variant that leaves the loop at the first failure
LoopAbortOnFailure(i, success) == IF success THEN i + 1 ELSE Len(yamlFiles) + 1

\* where the loop goes after the file at position i
LoopAdvance(i, success) == i + 1

\* one iteration of the loop over yamlFiles
BatchStep ==
  /\ pc = "loop"
  /\ idx <= Len(yamlFiles)
  /\ \E w \in WriteOutcomes :
       LET yamlFile == yamlFiles[idx]
           yamlPath == Join(RoadmapsDir, yamlFile)
           jsonFile == ReplaceYamlExt(yamlFile)
           jsonPath == Join(RoadmapsDir, jsonFile)
           r == convertYamlToJson(fs, yamlPath, jsonPath, w)
       IN /\ fs' = r.fs
          /\ stdout' = stdout \o r.out
          /\ stderr' = stderr \o r.err
          /\ calls' = Append(calls, CallRecord(fs, yamlPath, jsonPath, r))
          /\ successCount' = IF r.ret THEN successCount + 1 ELSE successCount
          /\ failCount' = IF r.ret THEN failCount ELSE failCount + 1
          /\ idx' = LoopAdvance(idx, r.ret)
  /\ UNCHANGED << extractVars, args, dirState, pc, yamlFiles, exitCode >>

\* the summary after the loop, and the exit of main
BatchFinish ==
  /\ pc = "loop"
  /\ idx > Len(yamlFiles)
  /\ stdout' = stdout \o << "rule", "summary" >>
  /\ exitCode' = 0
  /\ pc' = "exited"
  /\ UNCHANGED << extractVars, args, dirState, fs, yamlFiles, idx, successCount, failCount, stderr, calls >>

Next == MainSingle \/ BatchStart \/ BatchStep \/ BatchFinish

Spec == Init /\ [][Next]_vars

(***************************************************************************)
(* Vocabulary of the properties                                            *)
(***************************************************************************)
HasKey(m, k) == m.kind = "map" /\ \E i \in 1..Len(m.v) : m.v[i].key = k

\* a Roadmap Entry: a mapping with a title and a description
IsEntry(x) == HasKey(x, "title") /\ HasKey(x, "description")

\* a valid Payload: a non-empty mapping all of whose values are entries
ValidPayload(p) ==
  /\ p.kind = "map"
  /\ Len(p.v) > 0
  /\ \A i \in 1..Len(p.v) : IsEntry(p.v[i].val)

\* a mapping with a single key over a valid Payload
IsWrapper(t) == t.kind = "map" /\ Len(t.v) = 1 /\ ValidPayload(t.v[1].val)

\* the own properties of a mapping or a sequence, in insertion order
EntriesOf(obj) ==
  IF obj.kind = "map" THEN obj.v
  ELSE IF obj.kind = "seq"
    THEN [i \in 1..Len(obj.v) |-> [key |-> IndexName(i - 1), val |-> obj.v[i]]]
  ELSE << >>

\* property i of es is enumerated before property j
Precedes(es, i, j) ==
  LET a == es[i].key
      b == es[j].key
  IN IF IsIndexKey(a) /\ IsIndexKey(b) THEN IndexOf(a) < IndexOf(b)
     ELSE IF IsIndexKey(a) THEN TRUE
     ELSE IF IsIndexKey(b) THEN FALSE
     ELSE i < j

\* the positions of the properties whose value passes the validity test
Qualifying(obj) ==
  { i \in 1..Len(EntriesOf(obj)) : isRoadmapData(EntriesOf(obj)[i].val) }

(***************************************************************************)
(* Properties of the extractor                                             *)
(***************************************************************************)
\* C1: a valid Payload is returned as it is: same keys, same values, no
\* wrapper added or removed.
C1_DirectMatchIdentity ==
  (phase = "extracted" /\ ValidPayload(yamlData)) => jsonData = yamlData

C1_Witness ==
  /\ phase = "extracted"
  /\ ValidPayload(yamlData)
  /\ Len(yamlData.v) = 2
  /\ jsonData = yamlData

\* C2 as stated: a wrapper around a valid Payload is always dropped, whatever
\* the Payload's topic keys are called.
C2_WrapperAlwaysDropped ==
  (phase = "extracted" /\ IsWrapper(yamlData)) => jsonData = yamlData.v[1].val

\* C2 amended: a wrapper around a valid Payload is dropped unless the Payload
\* has both a topic called title and a topic called description; in that case
\* the wrapper mapping itself is returned.
C2_WrapperDropped ==
  (phase = "extracted" /\ IsWrapper(yamlData)) =>
    IF IsEntry(yamlData.v[1].val)
    THEN jsonData = yamlData
    ELSE jsonData = yamlData.v[1].val

C2_Witness ==
  /\ phase = "extracted"
  /\ IsWrapper(yamlData)
  /\ ~IsEntry(yamlData.v[1].val)
  /\ HasKey(yamlData.v[1].val, "title")
  /\ jsonData = yamlData.v[1].val

\* C3: null, a scalar and the empty mapping give the not-found result, and
\* the call does not throw.
C3_NotFoundForNonObjects ==
  (phase = "extracted"
     /\ (yamlData.kind \in {"null", "str", "num", "bool"}
           \/ yamlData = MapOf(<< >>)))
    => (jsonData = Null /\ jsonData # Thrown)

C3_Witness ==
  /\ phase = "extracted"
  /\ yamlData = Null
  /\ jsonData = Null

\* C4 as stated: every value of a returned mapping, not only the one under
\* its first key, is an entry.
C4_ResultIsValidPayload ==
  (phase = "extracted" /\ jsonData.kind = "map") =>
    \A i \in 1..Len(jsonData.v) : IsEntry(jsonData.v[i].val)

\* C4 amended: a result other than not-found is a non-empty mapping or
\* sequence whose first property, in Object.keys order, holds an entry; the
\* values of its other properties are not examined.
C4_ResultFirstValueIsEntry ==
  (phase = "extracted" /\ jsonData # Null) =>
    /\ jsonData.kind \in {"map", "seq"}
    /\ LET es == EntriesOf(jsonData) IN
         /\ Len(es) > 0
         /\ \E i \in 1..Len(es) :
               /\ \A j \in 1..Len(es) : j # i => Precedes(es, i, j)
               /\ IsEntry(es[i].val)

C4_Witness ==
  /\ phase = "extracted"
  /\ jsonData.kind = "map"
  /\ Len(jsonData.v) = 2
  /\ ~ValidPayload(jsonData)
  /\ IsEntry(jsonData.v[1].val)

C10_ResultNeverSequence ==
  phase = "extracted" => jsonData.kind # "seq"

(***************************************************************************)
(* Properties of the conversion, the batch driver and the exit code        *)
(***************************************************************************)
\* reading, the non-empty check, parsing and extraction all succeed
AllStepsSucceed(c) ==
  /\ c.content.kind \in {"yaml", "json"}
  /\ Truthy(c.content.tree)
  /\ Truthy(extractRoadmapData(c.content.tree))

\* the entries of the directory with a lower-case YAML extension
Selected == SelectSeq(ReadDir(fs), IsYamlName)

\* the entries of the directory with a YAML extension in any case
EndsYamlAnyCase(n) ==
  EndsWith(LowerStr(n), ExtYaml) \/ EndsWith(LowerStr(n), ExtYml)

BatchMode == Len(args) = 0

\* C5: in every call of convertYamlToJson the write of the destination is
\* performed exactly when reading, the non-empty check, parsing and
\* extraction all succeeded; when one of them failed the destination keeps
\* what it held, an error line is printed and the call returns false; the
\* call returns true only when the write succeeded, the destination then
\* holding the JSON text of the extracted payload.
C5_WriteOnlyAfterAllSteps ==
  \A i \in 1..Len(calls) :
    LET c == calls[i] IN
    /\ c.wrote <=> AllStepsSucceed(c)
    /\ ~AllStepsSucceed(c) =>
         (c.after = c.before /\ Len(c.err) > 0 /\ c.ret = FALSE)
    /\ c.ret =>
         (c.wrote /\ c.after = JsonText(extractRoadmapData(c.content.tree)))
    /\ ~c.ret => Len(c.err) > 0

C5_Witness ==
  \E i \in 1..Len(calls) :
    /\ calls[i].ret
    /\ calls[i].before = OldJson
    /\ calls[i].after # OldJson
    /\ calls[i].after.kind = "json"

\* C6: when the batch loop has ended, the selected files were each attempted
\* once, in order, whatever the earlier attempts returned; successCount plus
\* failCount is the number of selected files and successCount is the number
\* of attempts that returned true.  Inside the loop the two counters add up
\* to the number of attempts made so far.
C6_EveryFileAttemptedOnce ==
  /\ (BatchMode /\ pc = "loop") =>
        /\ successCount + failCount = Len(calls)
        /\ Len(calls) <= Len(Selected)
        /\ \A i \in 1..Len(calls) :
              calls[i].src = Join(RoadmapsDir, Selected[i])
  /\ (BatchMode /\ pc = "exited" /\ Len(Selected) > 0 /\ dirState = "ok") =>
        /\ Len(calls) = Len(Selected)
        /\ \A i \in 1..Len(calls) :
              calls[i].src = Join(RoadmapsDir, Selected[i])
        /\ successCount + failCount = Len(Selected)
        /\ successCount = Cardinality({ i \in 1..Len(calls) : calls[i].ret })

C6_Witness ==
  /\ BatchMode
  /\ pc = "exited"
  /\ Len(calls) = 2
  /\ ~calls[1].ret
  /\ calls[2].ret
  /\ successCount = 1
  /\ failCount = 1

C8_SelectionIgnoresCase ==
  (BatchMode /\ dirState = "ok" /\ pc # "start") =>
    /\ \A n \in Range(ReadDir(fs)) :
          (n \in Range(yamlFiles)) <=> EndsYamlAnyCase(n)
    /\ \A i \in 1..Len(calls) :
          \E stem \in { SubSeq(yamlFiles[i], 1, k) : k \in 0..Len(yamlFiles[i]) } :
             /\ yamlFiles[i] \in { stem \o ExtYaml, stem \o ExtYml }
             /\ calls[i].dst = Join(RoadmapsDir, stem \o ExtJson)
====
